---- MODULE Spec2Model ----
(***************************************************************************)
(* Battleship board engine of task_C2_5.py: Dot, Ship and Board.           *)
(*                                                                         *)
(* One Board object is modelled: its 6x6 matrix of Dot states, its         *)
(* ships_list (the active fleet) and its ship_length_list (the lengths     *)
(* still to be placed).  The operations are Board.add_ship and Board.shot, *)
(* called in any order, as the public methods of the class allow.          *)
(*                                                                         *)
(* A Ship is the record [length, direction, start_point, health]; it is    *)
(* always built by the constructor with the default health (= length), as  *)
(* every caller in the file does (lines 407, 464, 559).  Ship.dots_list    *)
(* holds references to the Dots of the board and carries no state of its   *)
(* own, so it is not a variable.                                           *)
(*                                                                         *)
(* A Ship object on its own (constructor, get_dots, Board.contour and      *)
(* reduce_health) is the variable a_ship, under SpecShip.                  *)
(*                                                                         *)
(* The Game is modelled in two parts.  SpecSetup is Game.start up to the   *)
(* call of loop: random_board with its counter and its nested calls, the   *)
(* RecursionError handlers, set_ships and set_ships_by_user.  SpecLoop is  *)
(* Game.loop with Player.move on two complete boards, and the message of   *)
(* Game.start when loop has returned.                                      *)
(***************************************************************************)
EXTENDS Integers, Sequences, FiniteSets, TLC

\* Dot.column / Dot.row setters: 1 <= value <= 6
BoardSize == 6

\* The number of calls made on the board in one run
MaxCalls == 4

\* The number of calls made on a board once its fleet is complete
MaxAfter == 3

VARIABLES
    board,             \* board[row][column]: the state of that Dot
    ships_list,        \* sequence of Ship records: the active fleet
    ship_length_list,  \* sequence of lengths still to be placed
    placed,            \* history: placed[n] = ships of length n accepted so far
    sunk,              \* history: sunk[n] = ships of length n removed at health 0
    shots,             \* history: the shots of ScanShot that returned, hit or miss
    calls,             \* history: the calls counted against the bound of the run
    call,              \* history: the last call and its arguments
    result,            \* history: what the last call returned or raised
    prev,              \* history: the board's fields as the last call found them
    a_ship,            \* the Ship the last constructor call made, or NoShip
    ret,               \* the value the last get_dots or contour returned
    boards,            \* the Board objects of a Game, by object identity
    board_human,       \* Game.board_human: the identity of a Board
    board_ai,          \* Game.board_ai: the identity of a Board
    player_human,      \* Game.player_human: its my_board and enemy_board
    player_ai,         \* Game.player_ai: its my_board and enemy_board
    pc,                \* where Game.start (with set_ships and loop) stands
    frames,            \* the calls of random_board in progress, outermost first
    asked,             \* history: the entries of Scan each player has asked
    move_ret,          \* what the last Player.move returned, "pending" until it does
    mover,             \* history: the player of the last Player.move
    target,            \* history: the Board the last call of a Game was made on
    announced          \* what Game.start printed at the end

vars == <<board, ships_list, ship_length_list, placed, sunk, shots, calls, call, result, prev,
          a_ship, ret, boards, board_human, board_ai, player_human, player_ai, pc,
          frames, asked, move_ret, mover, target, announced>>

\* The variables of the Board and its history; of the Ship on its own
boardVars == <<board, ships_list, ship_length_list, placed, sunk, shots, calls, prev>>
shipVars == <<a_ship, ret>>

\* The variables of the Game
gameVars == <<boards, board_human, board_ai, player_human, player_ai, pc, frames,
              asked, move_ret, mover, target, announced>>

----------------------------------------------------------------------------
\* Dot

STATE_CHOICES == {"undamaged", "damaged", "missed", "hidden"}

\* Dot.__init__ succeeds iff both setters accept their value
DotOk(column, row) ==
    /\ 1 <= column /\ column <= BoardSize
    /\ 1 <= row /\ row <= BoardSize

----------------------------------------------------------------------------
\* Ship

DIRECTION_CHOICES == {"horizontal", "vertical"}

\* Part with the two directions exchanged
Part_exchanged(direction, start_point, i) ==
    IF direction = "horizontal"
    THEN <<start_point[1], start_point[2] + i>>
    ELSE <<start_point[1] + i, start_point[2]>>

\* The i-th part (i = 0 .. length-1) of a ship starting at start_point
Part(direction, start_point, i) ==
    IF direction = "horizontal"
    THEN <<start_point[1] + i, start_point[2]>>
    ELSE <<start_point[1], start_point[2] + i>>

\* the start_point setter with a test of the start point alone
check_start_point_first(length, direction, start_point) ==
    DotOk(start_point[1], start_point[2])

\* Ship.start_point setter: every part must be a Dot of the board
check_start_point(length, direction, start_point) ==
    \A i \in 0..(length - 1) :
        LET p == Part(direction, start_point, i) IN DotOk(p[1], p[2])

\* Ship.__init__ with the default health
NewShip(length, direction, start_point) ==
    [direction |-> direction, start_point |-> start_point,
     length |-> length, health |-> length]

\* Ship.get_dots: the list of (column, row) of each part, in order
get_dots(ship) ==
    [k \in 1..ship.length |-> Part(ship.direction, ship.start_point, k - 1)]

Range(s) == {s[k] : k \in 1..Len(s)}

\* reduce_health without the decrement
reduce_health_kept(ship) == [raised |-> ~(ship.health > 0), ship |-> ship]

\* reduce_health that stops at 0 without raising
reduce_health_floor(ship) ==
    IF ship.health > 0
    THEN [raised |-> FALSE, ship |-> [ship EXCEPT !.health = ship.health - 1]]
    ELSE [raised |-> FALSE, ship |-> ship]

\* Ship.reduce_health: one less when positive, GameplayException at 0
reduce_health(ship) ==
    IF ship.health > 0
    THEN [raised |-> FALSE, ship |-> [ship EXCEPT !.health = ship.health - 1]]
    ELSE [raised |-> TRUE, ship |-> ship]

\* No Ship object
NoShip == [direction |-> "", start_point |-> <<0, 0>>, length |-> 0, health |-> 0]

----------------------------------------------------------------------------
\* What a call returns or raises

Return(v) == [kind |-> "return", val |-> v, msg |-> ""]
Raise(exc, m) == [kind |-> "raise", val |-> exc, msg |-> m]

AddCall(ship) ==
    [column |-> ship.start_point[1], row |-> ship.start_point[2],
     direction |-> ship.direction, length |-> ship.length, op |-> "add_ship"]
ShotCall(column, row) ==
    [column |-> column, row |-> row, direction |-> "", length |-> 0, op |-> "shot"]
ShipCall(op, length, direction, start_point) ==
    [column |-> start_point[1], row |-> start_point[2],
     direction |-> direction, length |-> length, op |-> op]

\* Ship.__init__(length, direction, start_point): the setters in the order
\* of lines 127-130.  start_point is a Dot, so it lies on the board.
Ship_init(length, direction, start_point) ==
    IF length \notin 1..3
    THEN [result |-> Raise("IncorrectParametersException", "length"), ship |-> NoShip]
    ELSE IF direction \notin DIRECTION_CHOICES
    THEN [result |-> Raise("IncorrectParametersException", "direction"), ship |-> NoShip]
    ELSE IF ~check_start_point(length, direction, start_point)
    THEN [result |-> Raise("BoardOutException", "start point"), ship |-> NoShip]
    ELSE [result |-> Return("None"), ship |-> NewShip(length, direction, start_point)]

----------------------------------------------------------------------------
\* Board

\* Board.create_board: every Dot starts "hidden"
create_board == [r \in 1..BoardSize |-> [c \in 1..BoardSize |-> "hidden"]]

\* Board.__init__: the fleet to place
FleetLengths == <<3, 2, 2, 1, 1, 1, 1>>

\* contour with the four side neighbours of every part only
contour_sides(ship) ==
    LET dots == Range(get_dots(ship))
        blocks == UNION {{<<d[1] + i, d[2] + j>> : i \in -1..1, j \in -1..1} : d \in dots}
    IN {p \in blocks \ dots :
           /\ DotOk(p[1], p[2])
           /\ \E d \in dots : (p[1] = d[1] \/ p[2] = d[2])}

\* contour without lines 291-292: the parts themselves stay in
contour_with_parts(ship) ==
    LET dots == Range(get_dots(ship))
        blocks == UNION {{<<d[1] + i, d[2] + j>> : i \in -1..1, j \in -1..1} : d \in dots}
    IN {p \in blocks : DotOk(p[1], p[2])}

\* contour without lines 294-296: what lies outside the board stays in
contour_unclipped(ship) ==
    LET dots == Range(get_dots(ship))
        blocks == UNION {{<<d[1] + i, d[2] + j>> : i \in -1..1, j \in -1..1} : d \in dots}
    IN blocks \ dots

\* Board.contour: the 3x3 blocks round every part, without the parts
\* themselves, without what lies outside the board
contour(ship) ==
    LET dots == Range(get_dots(ship))
        blocks == UNION {{<<d[1] + i, d[2] + j>> : i \in -1..1, j \in -1..1} : d \in dots}
    IN {p \in blocks \ dots : DotOk(p[1], p[2])}

\* occupied_dots without lines 264-265: the dots of the fleet only
occupied_dots_only(ships) ==
    UNION {Range(get_dots(ships[k])) : k \in 1..Len(ships)}

\* add_ship, lines 259-265: the dots and the contours of the active fleet
occupied_dots(ships) ==
    UNION {Range(get_dots(ships[k])) \cup contour(ships[k]) : k \in 1..Len(ships)}

\* a remove that drops every element equal to x
RemoveAll(s, x) == SelectSeq(s, LAMBDA e : e # x)

\* list.remove(x): drops the first element equal to x
RECURSIVE RemoveFirst(_, _)
RemoveFirst(s, x) ==
    IF s = <<>> THEN <<>>
    ELSE IF Head(s) = x THEN Tail(s)
    ELSE <<Head(s)>> \o RemoveFirst(Tail(s), x)

\* SetDots with the two indices of self.board[..][..] exchanged
SetDots_swapped(b, dots, value) ==
    [r \in 1..BoardSize |-> [c \in 1..BoardSize |->
        IF <<r, c>> \in dots THEN value ELSE b[r][c]]]

\* add_ship, lines 275-277 and shot, lines 311-312: self.board[row][column]
\* of every (column, row) of dots is given the state value
SetDots(b, dots, value) ==
    [r \in 1..BoardSize |-> [c \in 1..BoardSize |->
        IF <<c, r>> \in dots THEN value ELSE b[r][c]]]

\* a test of the length that lets every length through
length_in_list_always(length, lengths) == TRUE

\* add_ship, line 272: new_ship.length in self.ship_length_list
length_in_list(length, lengths) == length \in Range(lengths)

\* The fields of the Board
Fields ==
    [board |-> board, ships_list |-> ships_list, ship_length_list |-> ship_length_list]

\* Board.add_ship on the Board self: the fields it leaves and what it
\* returns or raises
Board_add_ship(self, new_ship) ==
    IF \E d \in Range(get_dots(new_ship)) : d \in occupied_dots(self.ships_list)
    THEN [fields |-> self,
          result |-> Raise("IncorrectParametersException", "between ships")]
    ELSE IF length_in_list(new_ship.length, self.ship_length_list)
    THEN [fields |->
             [board |-> SetDots(self.board, Range(get_dots(new_ship)), "undamaged"),
              ships_list |-> Append(self.ships_list, new_ship),
              ship_length_list |-> RemoveFirst(self.ship_length_list, new_ship.length)],
          result |-> Return("None")]
    ELSE [fields |-> self,
          result |-> Raise("IncorrectParametersException", "more ships")]

\* Board.add_ship called on the board of the variables
add_ship(new_ship) ==
    /\ call' = AddCall(new_ship)
    /\ prev' = Fields
    /\ UNCHANGED sunk
    /\ \E o \in {Board_add_ship(Fields, new_ship)} :
          /\ board' = o.fields.board
          /\ ships_list' = o.fields.ships_list
          /\ ship_length_list' = o.fields.ship_length_list
          /\ result' = o.result
          /\ placed' = IF o.result.kind = "return"
                       THEN [placed EXCEPT ![new_ship.length] = @ + 1]
                       ELSE placed

\* Board.shot, lines 307-313: the scan of ships_list for the ship that was
\* hit.  idx is the position of Python's list iterator, which goes on to
\* idx + 1 also after ships_list.remove(i) has shortened the list; column
\* and row are the loop variables that line 311 rebinds, and are left at
\* the last element of the contour list, whose order (that of a Python
\* set) is any.  The result is the set of outcomes of the scan.
RECURSIVE ShipsLoop(_, _, _, _, _, _)
ShipsLoop(ships, b, column, row, idx, sk) ==
    IF idx > Len(ships)
    THEN {[ships |-> ships, board |-> b, sunk |-> sk, raised |-> FALSE]}
    ELSE LET i == ships[idx] IN
         IF <<column, row>> \notin Range(get_dots(i))
         THEN ShipsLoop(ships, b, column, row, idx + 1, sk)
         ELSE LET red == reduce_health(i)
                  ships1 == [ships EXCEPT ![idx] = red.ship]
              IN IF red.raised
                 THEN {[ships |-> ships, board |-> b, sunk |-> sk, raised |-> TRUE]}
                 ELSE IF red.ship.health = 0
                 THEN LET cont == contour(red.ship)
                          b1 == SetDots(b, cont, "missed")
                          ships2 == RemoveFirst(ships1, red.ship)
                          sk1 == [sk EXCEPT ![red.ship.length] = @ + 1]
                      IN IF cont = {}
                         THEN ShipsLoop(ships2, b1, column, row, idx + 1, sk1)
                         ELSE UNION {ShipsLoop(ships2, b1, last[1], last[2], idx + 1, sk1)
                                        : last \in cont}
                 ELSE ShipsLoop(ships1, b, column, row, idx + 1, sk)

\* line 318 without its right operand
already_shot_damaged(state) == state = "damaged"

\* Board.shot, line 318: state == "damaged" or "missed".  The right operand
\* is a non-empty string, which Python takes as true.
already_shot(state) == state = "damaged" \/ TRUE

\* No ship of any length
NoneSunk == [n \in 1..3 |-> 0]

\* a shot outside the board that is taken for a miss
BoardOut_miss(self) ==
    [fields |-> self, result |-> Return("False"), sunk |-> NoneSunk]

\* Board.shot, lines 321-322: the coordinates are not on the board
BoardOut(self) ==
    [fields |-> self, result |-> Raise("BoardOutException", "outside the board"),
     sunk |-> NoneSunk]

\* Board.shot on the Board self: the set of its outcomes, each the fields it
\* leaves, what it returns or raises, and the ships it removed at health 0
Board_shot(self, column, row) ==
    IF DotOk(column, row)
    THEN IF self.board[row][column] = "undamaged"
         THEN {[fields |-> [board |-> o.board, ships_list |-> o.ships,
                            ship_length_list |-> self.ship_length_list],
                result |-> IF o.raised
                           THEN Raise("GameplayException", "negative health")
                           ELSE Return("True"),
                sunk |-> o.sunk]
                 : o \in ShipsLoop(self.ships_list,
                                   [self.board EXCEPT ![row][column] = "damaged"],
                                   column, row, 1, NoneSunk)}
         ELSE IF self.board[row][column] = "hidden"
         THEN {[fields |-> [self EXCEPT !.board[row][column] = "missed"],
                result |-> Return("False"), sunk |-> NoneSunk]}
         ELSE IF already_shot(self.board[row][column])
         THEN {[fields |-> self,
                result |-> Raise("IncorrectParametersException", "already shot"),
                sunk |-> NoneSunk]}
         ELSE \* line 320: print_board(), then the method ends
              {[fields |-> self, result |-> Return("None"), sunk |-> NoneSunk]}
    ELSE {BoardOut(self)}

\* Board.shot called on the board of the variables
shot(column, row) ==
    /\ call' = ShotCall(column, row)
    /\ prev' = Fields
    /\ UNCHANGED placed
    /\ \E o \in Board_shot(Fields, column, row) :
          /\ board' = o.fields.board
          /\ ships_list' = o.fields.ships_list
          /\ ship_length_list' = o.fields.ship_length_list
          /\ result' = o.result
          /\ sunk' = [n \in 1..3 |-> sunk[n] + o.sunk[n]]

----------------------------------------------------------------------------
\* The callers' inputs

\* Start points and shots are drawn from one corner of the board, wide
\* enough for two ships side by side and for a ship that touches another
\* by a corner only.
StartColumns == 1..3
StartRows == 1..2

StartPoints == StartColumns \X StartRows

\* The arguments the callers give the constructor.  A ship of one part is
\* given "horizontal", as set_ships_by_user does (lines 553-554): its
\* direction decides nothing.
ShipArgs ==
    {a \in (1..3) \X DIRECTION_CHOICES \X StartPoints :
        a[1] = 1 => a[2] = "horizontal"}

\* The ships whose construction succeeds (Dot and Ship.start_point setters)
ConstructedShips ==
    {NewShip(a[1], a[2], a[3]) : a \in
        {x \in ShipArgs : /\ DotOk(x[3][1], x[3][2])
                          /\ check_start_point(x[1], x[2], x[3])}}

\* Shots outside the board: a column too low, a row too high
OutShots == {<<0, 1>>, <<1, BoardSize + 1>>}

Shots == StartPoints \cup OutShots

----------------------------------------------------------------------------
\* The size of the heap of Board objects of a Game
NumBoards == 5

BoardIds == 1..NumBoards

\* No Board object under this identity
NoBoard == [board |-> <<>>, ships_list |-> <<>>, ship_length_list |-> <<>>]

\* Board()
NewBoard ==
    [board |-> create_board, ships_list |-> <<>>, ship_length_list |-> FleetLengths]

\* Board() for the board of the variables; no call made yet
InitBoard ==
    /\ board = create_board
    /\ ships_list = <<>>
    /\ ship_length_list = FleetLengths
    /\ placed = [n \in 1..3 |-> 0]
    /\ sunk = [n \in 1..3 |-> 0]
    /\ shots = 0
    /\ calls = 0
    /\ call = [column |-> 0, row |-> 0, direction |-> "", length |-> 0, op |-> "Board"]
    /\ result = Return("None")
    /\ prev = [board |-> create_board, ships_list |-> <<>>,
               ship_length_list |-> FleetLengths]
    /\ a_ship = NoShip
    /\ ret = <<>>

\* No Game object
NoGame ==
    /\ boards = [i \in BoardIds |-> NoBoard]
    /\ board_human = 0
    /\ board_ai = 0
    /\ player_human = [my_board |-> 0, enemy_board |-> 0]
    /\ player_ai = [my_board |-> 0, enemy_board |-> 0]
    /\ pc = ""
    /\ frames = <<>>
    /\ asked = [p \in {"user", "computer"} |-> {}]
    /\ move_ret = "pending"
    /\ mover = ""
    /\ target = 0
    /\ announced = ""

Init == InitBoard /\ NoGame

AddShip ==
    /\ calls < MaxCalls
    /\ calls' = calls + 1
    /\ \E s \in ConstructedShips : add_ship(s)
    /\ UNCHANGED <<shots, shipVars, gameVars>>

Shot ==
    /\ calls < MaxCalls
    /\ calls' = calls + 1
    /\ \E p \in Shots : shot(p[1], p[2])
    /\ UNCHANGED <<shots, shipVars, gameVars>>

Next == AddShip \/ Shot

Spec == Init /\ [][Next]_vars

----------------------------------------------------------------------------
\* A whole fleet on the board.  The ships are placed in the order of
\* random_board (lines 458-471: the length is ship_length_list[0]) from a
\* deployment that fits the board and a ship that fits nowhere in it; once
\* no length remains, MaxAfter more calls are made: shots, and add_ship
\* with any of these ships.

FleetArgs ==
    {<<3, "horizontal", <<1, 1>>>>, <<2, "horizontal", <<5, 1>>>>,
     <<2, "vertical", <<1, 3>>>>,   <<1, "horizontal", <<3, 3>>>>,
     <<1, "horizontal", <<5, 3>>>>, <<1, "horizontal", <<3, 5>>>>,
     <<1, "horizontal", <<5, 5>>>>, <<1, "horizontal", <<2, 2>>>>}

FleetShips == {NewShip(a[1], a[2], a[3]) : a \in FleetArgs}

FleetShots ==
    {<<1, 1>>, <<5, 1>>, <<6, 1>>, <<4, 2>>, <<3, 3>>, <<4, 4>>}

Deploy ==
    /\ ship_length_list # <<>>
    /\ UNCHANGED calls
    /\ \E s \in FleetShips :
          /\ s.length = Head(ship_length_list)
          /\ add_ship(s)
    /\ UNCHANGED <<shots, shipVars, gameVars>>

AfterAddShip ==
    /\ ship_length_list = <<>>
    /\ calls < MaxAfter
    /\ calls' = calls + 1
    /\ \E s \in FleetShips : add_ship(s)
    /\ UNCHANGED <<shots, shipVars, gameVars>>

AfterShot ==
    /\ ship_length_list = <<>>
    /\ calls < MaxAfter
    /\ calls' = calls + 1
    /\ \E p \in FleetShots : shot(p[1], p[2])
    /\ UNCHANGED <<shots, shipVars, gameVars>>

NextFleet == Deploy \/ AfterAddShip \/ AfterShot

SpecFleet == Init /\ [][NextFleet]_vars

----------------------------------------------------------------------------
\* The board of Game.greet (lines 407-409): a new board that is given the
\* ship of length 3, horizontal, at (3,2).  MaxCalls calls are made on it,
\* with that ship and two others, and with shots at its Dots and round them.

ExampleShip == NewShip(3, "horizontal", <<3, 2>>)

ExampleShips ==
    {ExampleShip, NewShip(1, "horizontal", <<1, 5>>), NewShip(2, "vertical", <<4, 3>>)}

ExampleShots == {<<3, 2>>, <<4, 2>>, <<5, 2>>, <<2, 1>>, <<6, 3>>, <<1, 5>>}

ExampleAddShip ==
    /\ calls < MaxCalls
    /\ calls' = calls + 1
    /\ \E s \in ExampleShips : add_ship(s)
    /\ UNCHANGED <<shots, shipVars, gameVars>>

ExampleShot ==
    /\ calls < MaxCalls
    /\ calls' = calls + 1
    /\ \E p \in ExampleShots : shot(p[1], p[2])
    /\ UNCHANGED <<shots, shipVars, gameVars>>

NextExample == ExampleAddShip \/ ExampleShot

SpecExample == Init /\ [][NextExample]_vars

----------------------------------------------------------------------------
\* A Ship object on its own: the constructor with any length, direction and
\* start point, then get_dots, Board.contour and reduce_health on the
\* object it made.

Lengths == 0..4
Directions == DIRECTION_CHOICES \cup {"diagonal"}

\* Dot(column, row) for the start point: the Dots whose construction succeeds
DotArgs == {p \in (0..(BoardSize + 1)) \X (0..(BoardSize + 1)) : DotOk(p[1], p[2])}

\* a_ship = Ship(length, direction, start_point)
ShipInit ==
    \E length \in Lengths, direction \in Directions, start_point \in DotArgs :
        \E o \in {Ship_init(length, direction, start_point)} :
            /\ call' = ShipCall("Ship", length, direction, start_point)
            /\ result' = o.result
            /\ a_ship' = o.ship
            /\ ret' = <<>>
            /\ UNCHANGED <<boardVars, gameVars>>

\* a_ship.get_dots()
GetDots ==
    /\ a_ship # NoShip
    /\ call' = ShipCall("get_dots", a_ship.length, a_ship.direction, a_ship.start_point)
    /\ result' = Return("list")
    /\ ret' = get_dots(a_ship)
    /\ UNCHANGED <<a_ship, boardVars, gameVars>>

\* Board.contour(a_ship)
Contour ==
    /\ a_ship # NoShip
    /\ call' = ShipCall("contour", a_ship.length, a_ship.direction, a_ship.start_point)
    /\ result' = Return("list")
    /\ ret' = contour(a_ship)
    /\ UNCHANGED <<a_ship, boardVars, gameVars>>

\* a_ship.reduce_health()
ReduceHealth ==
    /\ a_ship # NoShip
    /\ call' = ShipCall("reduce_health", a_ship.length, a_ship.direction, a_ship.start_point)
    /\ \E o \in {reduce_health(a_ship)} :
          /\ a_ship' = o.ship
          /\ result' = IF o.raised
                       THEN Raise("GameplayException", "negative health")
                       ELSE Return("None")
    /\ ret' = <<>>
    /\ UNCHANGED <<boardVars, gameVars>>

NextShip == ShipInit \/ GetDots \/ Contour \/ ReduceHealth

SpecShip == Init /\ [][NextShip]_vars

----------------------------------------------------------------------------
\* Game: the two boards, the two players, start with random_board and
\* set_ships.  A Board of the Game is a record of its fields in boards, under
\* its identity; Game.board_human, Game.board_ai and the players' my_board
\* and enemy_board hold identities, so that an assignment of a new Board to
\* a field of the Game leaves the other references where they were.

\* random_board, line 448: count > 900
MaxCount == 900

\* The number of inner_func calls in progress beyond which the interpreter
\* raises RecursionError (lines 583, 608): the interpreter's limit, which the
\* file does not set
MaxDepth == 903

\* Game.__init__
Game_init ==
    /\ boards = [i \in BoardIds |-> IF i \in {1, 2} THEN NewBoard ELSE NoBoard]
    /\ board_human = 1
    /\ board_ai = 2
    /\ player_human = [my_board |-> 1, enemy_board |-> 2]
    /\ player_ai = [my_board |-> 2, enemy_board |-> 1]

\* The identities held by the Game (bh, ba), by the players and by the
\* calls of random_board in progress; a Board held by none of them is gone
Refs(bh, ba, fr) ==
    {bh, ba, player_human.my_board, player_human.enemy_board,
     player_ai.my_board, player_ai.enemy_board}
    \cup {fr[k].board : k \in 1..Len(fr)}

Free(refs) == BoardIds \ refs

\* The identity of a new object: the least one that is free
Fresh(refs) == CHOOSE i \in Free(refs) : \A j \in Free(refs) : i <= j

Collect(bs, refs) == [i \in BoardIds |-> IF i \in refs THEN bs[i] ELSE NoBoard]

\* The inner_func calls in progress: count of them in every call of
\* random_board, since none returns before its board is complete
RECURSIVE Depth(_)
Depth(fr) == IF fr = <<>> THEN 0 ELSE Head(fr).count + Depth(Tail(fr))

\* The direction and start point of each ship of a deployment that fits the
\* board, in the order of FleetLengths
Deployment ==
    <<<<"vertical", <<1, 4>>>>, <<"horizontal", <<5, 1>>>>, <<"horizontal", <<1, 1>>>>,
      <<"horizontal", <<3, 3>>>>, <<"horizontal", <<5, 3>>>>, <<"horizontal", <<3, 5>>>>,
      <<"horizontal", <<5, 5>>>>>>

\* A direction and start point that fail on every board of this deployment:
\* a ship of length 3 ends outside the board, a shorter one is on the first ship
BadDraw == <<"vertical", <<1, 5>>>>

\* random_board, lines 461-462 (and the user's entries, lines 556-557): the
\* direction and the start point.  Of all the draws the model follows the
\* next ship of Deployment and, on a board that is empty or lacks its last
\* ship only, BadDraw.
RandomDraws(self) ==
    {Deployment[k] : k \in {Len(self.ships_list) + 1} \cap (1..Len(Deployment))}
    \cup (IF Len(self.ship_length_list) \in {1, Len(FleetLengths)}
          THEN {BadDraw} ELSE {})

\* random_board, lines 459-475, and set_ships_by_user, lines 551-574: the
\* ship is constructed and, if that succeeds, added to the Board self
TryPlace(self, length, direction, start_point) ==
    LET s == Ship_init(length, direction, start_point) IN
    IF s.result.kind = "raise"
    THEN [fields |-> self, result |-> s.result,
          call |-> ShipCall("Ship", length, direction, start_point)]
    ELSE [fields |-> Board_add_ship(self, s.ship).fields,
          result |-> Board_add_ship(self, s.ship).result,
          call |-> AddCall(s.ship)]

\* Where a RecursionError out of random_board(player) is caught
Except(player) == IF player = "computer" THEN "except_start" ELSE "except_generate"

\* Where Game.start goes on when random_board(player)() returns: set_ships
\* (line 613) after the computer's board, loop (line 614) after the user's
Continue(player) == IF player = "computer" THEN "set_ships" ELSE "loop"

\* self.random_board(player)(), lines 435-458: the board is the Game's
\* board of that player, count becomes 1
call_random_board(player) ==
    /\ frames' = <<[board |-> IF player = "user" THEN board_human ELSE board_ai,
                    count |-> 1, player |-> player]>>
    /\ pc' = "random_board"
    /\ UNCHANGED <<boards, board_human, board_ai, player_human, player_ai, asked,
                   move_ret, mover, target, announced, boardVars, shipVars,
                   call, result>>

\* Game.start, line 607
Start ==
    /\ pc = "start"
    /\ call_random_board("computer")

\* generates_random_board, line 582
GeneratesRandomBoard ==
    /\ pc = "generate"
    /\ call_random_board("user")

\* inner_func() called at lines 466-475 after a placement that failed, by
\* the call of random_board on top of fr: the frames, the Game's boards and
\* the place of control it leaves
inner_func(fr, bs, bh, ba) ==
    LET top == fr[Len(fr)]
        c == top.count + 1
        fr1 == [fr EXCEPT ![Len(fr)].count = c]
        keep == Refs(IF top.player = "user" THEN 0 ELSE bh,
                     IF top.player = "computer" THEN 0 ELSE ba, fr1)
        n == Fresh(keep)
        bh1 == IF top.player = "user" THEN n ELSE bh
        ba1 == IF top.player = "computer" THEN n ELSE ba
        fr2 == Append(fr1, [board |-> n, count |-> 1, player |-> top.player])
    IN IF Depth(fr) >= MaxDepth
       THEN [frames |-> <<>>, pc |-> Except(top.player), board_human |-> bh,
             board_ai |-> ba, boards |-> Collect(bs, Refs(bh, ba, <<>>))]
       ELSE IF c > MaxCount
       THEN \* lines 449-456: a new Board for the player, random_board again
            IF Depth(fr1) >= MaxDepth
            THEN [frames |-> <<>>, pc |-> Except(top.player), board_human |-> bh1,
                  board_ai |-> ba1,
                  boards |-> Collect([bs EXCEPT ![n] = NewBoard], Refs(bh1, ba1, <<>>))]
            ELSE [frames |-> fr2, pc |-> "random_board", board_human |-> bh1,
                  board_ai |-> ba1,
                  boards |-> Collect([bs EXCEPT ![n] = NewBoard], Refs(bh1, ba1, fr2))]
       ELSE [frames |-> fr1, pc |-> "random_board", board_human |-> bh,
             board_ai |-> ba, boards |-> bs]

\* The placement went through: the loop of line 458 goes on, and ends when
\* no length remains; then every inner_func of this call of random_board
\* returns, to line 458 of the call of random_board that made it or to the
\* caller of the first
placed_one(fr, bs, bh, ba) ==
    LET top == fr[Len(fr)]
        fr1 == IF bs[top.board].ship_length_list = <<>>
               THEN SubSeq(fr, 1, Len(fr) - 1) ELSE fr
    IN [frames |-> fr1,
        pc |-> IF fr1 = <<>> THEN Continue(top.player) ELSE "random_board",
        board_human |-> bh, board_ai |-> ba,
        boards |-> Collect(bs, Refs(bh, ba, fr1))]

\* random_board, lines 458-475: one turn of the loop
Attempt ==
    /\ pc = "random_board"
    /\ LET top == frames[Len(frames)]
           self == boards[top.board]
       IN /\ self.ship_length_list # <<>>
          /\ \E d \in RandomDraws(self) :
             \E o \in {TryPlace(self, Head(self.ship_length_list), d[1], d[2])} :
             \E g \in {IF o.result.kind = "raise"
                       THEN inner_func(frames, boards, board_human, board_ai)
                       ELSE placed_one(frames, [boards EXCEPT ![top.board] = o.fields],
                                       board_human, board_ai)} :
                /\ Free(Refs(board_human, board_ai, frames)) # {}
                /\ frames' = g.frames
                /\ pc' = g.pc
                /\ board_human' = g.board_human
                /\ board_ai' = g.board_ai
                /\ boards' = g.boards
                /\ call' = o.call
                /\ result' = o.result
                /\ prev' = self
                /\ target' = top.board
    /\ UNCHANGED <<player_human, player_ai, asked, move_ret, mover, announced,
                   board, ships_list, ship_length_list, placed, sunk, shots, calls, shipVars>>

\* Game.start, lines 608-610: self.board_ai = Board(); self.start()
ExceptStart ==
    /\ pc = "except_start"
    /\ Free(Refs(board_human, 0, <<>>)) # {}
    /\ \E n \in {Fresh(Refs(board_human, 0, <<>>))} :
          /\ board_ai' = n
          /\ boards' = Collect([boards EXCEPT ![n] = NewBoard],
                               Refs(board_human, n, <<>>))
    /\ pc' = "start"
    /\ UNCHANGED <<board_human, player_human, player_ai, frames, asked, move_ret,
                   mover, target, announced, boardVars, shipVars, call, result>>

\* generates_random_board, lines 583-585: self.board_human = Board(), again
ExceptGenerate ==
    /\ pc = "except_generate"
    /\ Free(Refs(0, board_ai, <<>>)) # {}
    /\ \E n \in {Fresh(Refs(0, board_ai, <<>>))} :
          /\ board_human' = n
          /\ boards' = Collect([boards EXCEPT ![n] = NewBoard],
                               Refs(n, board_ai, <<>>))
    /\ pc' = "generate"
    /\ UNCHANGED <<board_ai, player_human, player_ai, frames, asked, move_ret,
                   mover, target, announced, boardVars, shipVars, call, result>>

\* set_ships, lines 590-603: 1 for a generated board, 0 for the user's own
SetShips ==
    /\ pc = "set_ships"
    /\ \E choice \in {0, 1} :
          pc' = IF choice = 1 THEN "generate" ELSE "set_ships_by_user"
    /\ UNCHANGED <<boards, board_human, board_ai, player_human, player_ai, frames,
                   asked, move_ret, mover, target, announced, boardVars,
                   shipVars, call, result>>

\* set_ships_by_user, lines 504-576: one turn of the loop on
\* self.board_human.  The length entered is the first that remains; a ship
\* of one part is horizontal (lines 553-554).  After a failure the method
\* calls itself, which goes on with the same loop on the same board.
SetShipsByUser ==
    /\ pc = "set_ships_by_user"
    /\ LET self == boards[board_human]
       IN /\ self.ship_length_list # <<>>
          /\ \E d \in RandomDraws(self) :
             \E o \in {TryPlace(self, Head(self.ship_length_list),
                                IF Head(self.ship_length_list) = 1
                                THEN "horizontal" ELSE d[1], d[2])} :
                /\ boards' = [boards EXCEPT ![board_human] = o.fields]
                /\ pc' = IF o.fields.ship_length_list = <<>>
                         THEN "loop" ELSE "set_ships_by_user"
                /\ call' = o.call
                /\ result' = o.result
                /\ prev' = self
                /\ target' = board_human
    /\ UNCHANGED <<board_human, board_ai, player_human, player_ai, frames, asked,
                   move_ret, mover, announced, board, ships_list,
                   ship_length_list, placed, sunk, shots, calls, shipVars>>

\* Game(), then Game.start
InitSetup ==
    /\ InitBoard
    /\ Game_init
    /\ pc = "start"
    /\ frames = <<>>
    /\ asked = [p \in {"user", "computer"} |-> {}]
    /\ move_ret = "pending"
    /\ mover = ""
    /\ target = 0
    /\ announced = ""

NextSetup ==
    \/ Start
    \/ Attempt
    \/ ExceptStart
    \/ SetShips
    \/ GeneratesRandomBoard
    \/ ExceptGenerate
    \/ SetShipsByUser

SpecSetup == InitSetup /\ [][NextSetup]_vars

----------------------------------------------------------------------------
\* Game.loop and the end of Game.start.  The two boards carry the ships of
\* Deployment, as random_board or set_ships_by_user leave them, and the
\* players hold the Boards that Game.__init__ gave them.

RECURSIVE Deployed(_)
\* Board() after add_ship of the first k ships of Deployment
Deployed(k) ==
    IF k = 0 THEN NewBoard
    ELSE Board_add_ship(Deployed(k - 1),
                        NewShip(FleetLengths[k], Deployment[k][1],
                                Deployment[k][2])).fields

\* What the players answer when asked, in this order or with two
\* neighbouring answers exchanged: every part of every ship, Dots next to
\* ships before and after the ship is sunk, Dots asked twice, and an entry
\* outside the board
Scan ==
    <<<<4, 4>>, <<3, 3>>, <<3, 3>>, <<0, 3>>, <<2, 1>>, <<1, 1>>, <<3, 1>>,
      <<5, 1>>, <<6, 1>>, <<5, 3>>, <<1, 4>>, <<1, 5>>, <<1, 6>>, <<3, 5>>,
      <<6, 6>>, <<5, 5>>, <<6, 6>>, <<4, 4>>>>

\* AI.ask, line 393, draws columns and rows from 1..6 only; User.ask takes
\* whatever two integers are entered
Unasked(player) ==
    {k \in 1..Len(Scan) :
        /\ k \notin asked[player]
        /\ player = "computer" => DotOk(Scan[k][1], Scan[k][2])}

Window(player) ==
    {k \in Unasked(player) : Cardinality({j \in Unasked(player) : j < k}) < 2}

\* line 362 with a result that always counts as true
move_returns_always(shot_result) == TRUE

\* Player.move, lines 362-365: if shot_result: return True, else False
move_returns(shot_result) == shot_result = Return("True")

\* Player.move with the choice (column, row) on the Board self, which is
\* the player's enemy_board: the outcomes of Board.shot, and for each what
\* move does next: it returns True or False, it calls itself after a
\* BoardOutException or IncorrectParametersException (lines 351-360:
\* "pending"), or the exception leaves it ("raised")
Player_move(self, column, row) ==
    {[fields |-> o.fields, result |-> o.result,
      returns |-> IF o.result.kind = "raise"
                  THEN IF o.result.val \in {"BoardOutException",
                                            "IncorrectParametersException"}
                       THEN "pending" ELSE "raised"
                  ELSE IF move_returns(o.result) THEN "True" ELSE "False"]
        : o \in Board_shot(self, column, row)}

\* Game.loop, lines 480, 484, 486, 491, 493: both fleets of the Game
Alive(bs) == bs[board_ai].ships_list # <<>> /\ bs[board_human].ships_list # <<>>

\* Game.loop: where control is after the move called at line at has
\* returned again (True or False), alive telling whether both fleets are
\* non-empty then
AfterMove(at, again, alive) ==
    CASE at = "l481" -> IF again THEN "l483" ELSE IF alive THEN "l488" ELSE "returned"
      [] at = "l483" -> IF ~alive THEN "returned" ELSE IF again THEN "l483" ELSE "l488"
      [] at = "l488" -> IF again THEN "l490" ELSE IF alive THEN "loop" ELSE "returned"
      [] at = "l490" -> IF ~alive THEN "returned" ELSE IF again THEN "l490" ELSE "loop"

\* The lines of Game.loop that call player.move
MoveLines(player) == IF player = "user" THEN {"l481", "l483"} ELSE {"l488", "l490"}

PlayerOf(player) == IF player = "user" THEN player_human ELSE player_ai

\* Game.loop, line 480: the test of the while
LoopTest ==
    /\ pc = "loop"
    /\ pc' = IF Alive(boards) THEN "l481" ELSE "returned"
    /\ UNCHANGED <<boards, board_human, board_ai, player_human, player_ai, frames,
                   asked, move_ret, mover, target, announced, boardVars, shipVars,
                   call, result>>

\* One turn of Player.move(player): ask, then Board.shot on enemy_board.
\* An entry outside the board is refused by User.ask itself (lines 377-378,
\* 382-384), which asks again.
move(player) ==
    /\ mover' = player
    /\ target' = PlayerOf(player).enemy_board
    /\ prev' = boards[PlayerOf(player).enemy_board]
    /\ \E k \in Window(player) :
          /\ asked' = [asked EXCEPT ![player] = @ \cup {k}]
          /\ IF ~DotOk(Scan[k][1], Scan[k][2])
             THEN /\ call' = ShipCall("ask", 0, "", Scan[k])
                  /\ result' = Raise("BoardOutException", "between 1 and 6")
                  /\ move_ret' = "pending"
                  /\ UNCHANGED <<boards, pc>>
             ELSE \E o \in Player_move(boards[PlayerOf(player).enemy_board],
                                       Scan[k][1], Scan[k][2]) :
                  /\ call' = ShotCall(Scan[k][1], Scan[k][2])
                  /\ result' = o.result
                  /\ move_ret' = o.returns
                  /\ boards' = [boards EXCEPT ![PlayerOf(player).enemy_board] = o.fields]
                  /\ pc' = IF o.returns = "pending" THEN pc
                           ELSE IF o.returns = "raised" THEN "raised"
                           ELSE AfterMove(pc, o.returns = "True", Alive(boards'))
    /\ UNCHANGED <<board_human, board_ai, player_human, player_ai, frames, announced,
                   board, ships_list, ship_length_list, placed, sunk, shots, calls, shipVars>>

\* self.player_human.move("user"), lines 481 and 483
HumanMove ==
    /\ pc \in MoveLines("user")
    /\ move("user")

\* self.player_ai.move("computer"), lines 488 and 490
AiMove ==
    /\ pc \in MoveLines("computer")
    /\ move("computer")

\* Game.start, lines 615-620, with the two messages exchanged
Winner_exchanged ==
    IF boards[board_ai].ships_list = <<>> THEN "Computer won!"
    ELSE IF boards[board_human].ships_list = <<>> THEN "You won!"
    ELSE ""

\* Game.start, lines 615-620
Winner ==
    IF boards[board_ai].ships_list = <<>> THEN "You won!"
    ELSE IF boards[board_human].ships_list = <<>> THEN "Computer won!"
    ELSE ""

\* Game.start after self.loop() has returned
Announce ==
    /\ pc = "returned"
    /\ announced' = Winner
    /\ pc' = "done"
    /\ UNCHANGED <<boards, board_human, board_ai, player_human, player_ai, frames,
                   asked, move_ret, mover, target, boardVars, shipVars, call, result>>

\* Game.start at line 614: both boards complete
InitLoop ==
    /\ InitBoard
    /\ boards = [i \in BoardIds |->
                    IF i \in {1, 2} THEN Deployed(Len(Deployment)) ELSE NoBoard]
    /\ board_human = 1
    /\ board_ai = 2
    /\ player_human = [my_board |-> 1, enemy_board |-> 2]
    /\ player_ai = [my_board |-> 2, enemy_board |-> 1]
    /\ pc = "loop"
    /\ frames = <<>>
    /\ asked = [p \in {"user", "computer"} |-> {}]
    /\ move_ret = "pending"
    /\ mover = ""
    /\ target = 0
    /\ announced = ""

NextLoop == LoopTest \/ HumanMove \/ AiMove \/ Announce

SpecLoop == InitLoop /\ [][NextLoop]_vars

----------------------------------------------------------------------------
\* Board.shot alone on a board with its fleet complete, on which no ship is
\* placed any more: the shots of Scan, in that order or with two
\* neighbouring shots exchanged.

\* Board() after add_ship of every ship of Deployment, as the board of the
\* variables
InitShots ==
    /\ board = Deployed(Len(Deployment)).board
    /\ ships_list = Deployed(Len(Deployment)).ships_list
    /\ ship_length_list = Deployed(Len(Deployment)).ship_length_list
    /\ placed = [n \in 1..3 |->
                    Cardinality({k \in 1..Len(FleetLengths) : FleetLengths[k] = n})]
    /\ sunk = [n \in 1..3 |-> 0]
    /\ shots = 0
    /\ calls = 0
    /\ call = AddCall(NewShip(FleetLengths[Len(Deployment)],
                              Deployment[Len(Deployment)][1],
                              Deployment[Len(Deployment)][2]))
    /\ result = Return("None")
    /\ prev = Deployed(Len(Deployment) - 1)
    /\ a_ship = NoShip
    /\ ret = <<>>
    /\ NoGame

\* self.shot(column, row) with the next entry of Scan
ScanShot ==
    /\ \E k \in Window("user") :
          /\ asked' = [asked EXCEPT !["user"] = @ \cup {k}]
          /\ shot(Scan[k][1], Scan[k][2])
    /\ shots' = IF result'.kind = "return" THEN shots + 1 ELSE shots
    /\ UNCHANGED <<calls, shipVars, boards, board_human, board_ai, player_human,
                   player_ai, pc, frames, move_ret, mover, target, announced>>

NextShots == ScanShot

SpecShots == InitShots /\ [][NextShots]_vars

TypeOK ==
    /\ \A r \in 1..BoardSize : \A c \in 1..BoardSize : board[r][c] \in STATE_CHOICES
    /\ \A k \in 1..Len(ships_list) : ships_list[k].length \in 1..3

----------------------------------------------------------------------------
\* Vocabulary of the properties

Dots == (1..BoardSize) \X (1..BoardSize)

Abs(x) == IF x < 0 THEN -x ELSE x

\* p and q are the same Dot or neighbours, diagonals included
Near(p, q) == Abs(p[1] - q[1]) <= 1 /\ Abs(p[2] - q[2]) <= 1

Occupied(ship) == Range(get_dots(ship))

\* The Dots round a ship: near one of its parts, not one of its parts
Buffer(ship) ==
    {p \in Dots : /\ p \notin Occupied(ship)
                  /\ \E q \in Occupied(ship) : Near(p, q)}

\* How often n occurs in the list s
Occurrences(s, n) == Cardinality({k \in 1..Len(s) : s[k] = n})

\* The ship the last call (an add_ship) was given
CallShip == NewShip(call.length, call.direction, <<call.column, call.row>>)

CallDot == <<call.column, call.row>>

Unchanged ==
    /\ board = prev.board
    /\ ships_list = prev.ships_list
    /\ ship_length_list = prev.ship_length_list

Raised(exc) == result.kind = "raise" /\ result.val = exc

\* The positions in the fleet, as the last call found it, of the ships
\* with a part at Dot p
Owners(p) ==
    {k \in 1..Len(prev.ships_list) : p \in Occupied(prev.ships_list[k])}

\* The list s without its k-th element
Without(s, k) == [j \in 1..(Len(s) - 1) |-> IF j < k THEN s[j] ELSE s[j + 1]]

----------------------------------------------------------------------------
\* C1: any two distinct ships of the active fleet have no Dot in common and
\* no part of one is a neighbour (diagonals included) of a part of the other.
C1_FleetApart ==
    \A j, k \in 1..Len(ships_list) :
        j # k => \A p \in Occupied(ships_list[j]), q \in Occupied(ships_list[k]) :
                    ~Near(p, q)

\* Two ships are in the fleet and a shot has just hit one of them.
C1_Witness ==
    /\ Len(ships_list) = 2
    /\ call.op = "shot"
    /\ result = Return("True")

\* C2: add_ship of a ship with a part on or next to (diagonals included) a
\* part of a ship of the active fleet raises IncorrectParametersException and
\* leaves the fleet, the remaining lengths and every Dot as they were.
C2_AdjacentRejected ==
    (/\ call.op = "add_ship"
     /\ \E k \in 1..Len(prev.ships_list) :
            \E p \in Occupied(CallShip), q \in Occupied(prev.ships_list[k]) :
                Near(p, q))
    => (Raised("IncorrectParametersException") /\ Unchanged)

\* A ship of one part was refused at (1,1) while a ship has a part at (2,2)
\* and no ship has a part at (1,1), (1,2) or (2,1).
C2_Witness ==
    /\ call = AddCall(NewShip(1, "horizontal", <<1, 1>>))
    /\ Raised("IncorrectParametersException")
    /\ \E k \in 1..Len(ships_list) : <<2, 2>> \in Occupied(ships_list[k])
    /\ \A k \in 1..Len(ships_list) :
           Occupied(ships_list[k]) \cap {<<1, 1>>, <<1, 2>>, <<2, 1>>} = {}

\* C3: a new board has the lengths {3,2,2,1,1,1,1} to place; add_ship of a
\* ship whose length is not among the remaining lengths raises
\* IncorrectParametersException and changes nothing; never more than one
\* ship of length 3, two of length 2 and four of length 1 are accepted; when
\* 7 ships have been accepted no length remains, and add_ship on a board
\* that has accepted 7 ships raises and changes nothing.
C3_FleetComposition ==
    /\ call.op = "Board" =>
          /\ Len(ship_length_list) = 7
          /\ Occurrences(ship_length_list, 3) = 1
          /\ Occurrences(ship_length_list, 2) = 2
          /\ Occurrences(ship_length_list, 1) = 4
    /\ (call.op = "add_ship" /\ call.length \notin Range(prev.ship_length_list))
       => (Raised("IncorrectParametersException") /\ Unchanged)
    /\ placed[3] <= 1 /\ placed[2] <= 2 /\ placed[1] <= 4
    /\ placed[1] + placed[2] + placed[3] = 7 => ship_length_list = <<>>
    /\ (/\ call.op = "add_ship"
        /\ Len(prev.ships_list) + sunk[1] + sunk[2] + sunk[3] = 7)
       => (Raised("IncorrectParametersException") /\ Unchanged)

\* Seven ships have been accepted and an eighth, clear of every ship of the
\* fleet, has been refused for its length.
C3_Witness ==
    /\ placed[1] + placed[2] + placed[3] = 7
    /\ call.op = "add_ship"
    /\ result = Raise("IncorrectParametersException", "more ships")
    /\ ship_length_list = <<>>

\* C4: per length, the ships of the fleet, the lengths still to be placed and
\* the ships that have sunk add up to the fleet of a new board; the ships
\* accepted so far are those in the fleet and those that have sunk; no ship
\* of the fleet has health 0.
C4_FleetAccounted ==
    /\ \A n \in 1..3 :
          /\ Cardinality({k \in 1..Len(ships_list) : ships_list[k].length = n})
                + Occurrences(ship_length_list, n) + sunk[n]
             = Occurrences(FleetLengths, n)
          /\ placed[n]
             = Cardinality({k \in 1..Len(ships_list) : ships_list[k].length = n})
                + sunk[n]
    /\ \A k \in 1..Len(ships_list) : ships_list[k].health > 0

\* One ship has sunk, another is in the fleet, lengths remain to be placed.
C4_Witness ==
    /\ sunk[1] + sunk[2] + sunk[3] >= 1
    /\ Len(ships_list) >= 1
    /\ ship_length_list # <<>>

\* C5: an add_ship that succeeds takes one instance of the ship's length from
\* the remaining lengths, appends the ship to the fleet, makes exactly the
\* ship's Dots "undamaged", and changes no other Dot and no other ship.
C5_AddShipEffect ==
    (call.op = "add_ship" /\ result = Return("None"))
    => /\ Len(ship_length_list) = Len(prev.ship_length_list) - 1
       /\ \A n \in 1..3 :
             Occurrences(ship_length_list, n)
             = Occurrences(prev.ship_length_list, n)
                - (IF n = call.length THEN 1 ELSE 0)
       /\ ships_list = Append(prev.ships_list, CallShip)
       /\ \A p \in Dots :
             board[p[2]][p[1]] = IF p \in Occupied(CallShip)
                                 THEN "undamaged"
                                 ELSE prev.board[p[2]][p[1]]

\* A ship of more than one part was accepted next to a ship already placed,
\* on a board with a Dot that is no longer "hidden" or "undamaged".
C5_Witness ==
    /\ call.op = "add_ship"
    /\ result = Return("None")
    /\ call.length >= 2
    /\ Len(ships_list) = 2
    /\ \E p \in Dots : board[p[2]][p[1]] \in {"missed", "damaged"}

\* C6: a shot at a Dot of the board returns True exactly when the Dot was
\* "undamaged" and False exactly when it was "hidden".  A miss changes only
\* that Dot, to "missed".  A hit that sinks nothing changes only that Dot, to
\* "damaged", and takes 1 health from the one ship with a part there.
C6_ShotEffect ==
    (call.op = "shot" /\ DotOk(call.column, call.row))
    => LET was == prev.board[call.row][call.column] IN
       /\ result = Return("True") <=> was = "undamaged"
       /\ result = Return("False") <=> was = "hidden"
       /\ was = "hidden" =>
             /\ board = [prev.board EXCEPT ![call.row][call.column] = "missed"]
             /\ ships_list = prev.ships_list
             /\ ship_length_list = prev.ship_length_list
       /\ (was = "undamaged" /\ \A k \in Owners(CallDot) : prev.ships_list[k].health > 1) =>
             /\ board = [prev.board EXCEPT ![call.row][call.column] = "damaged"]
             /\ Cardinality(Owners(CallDot)) = 1
             /\ \A k \in Owners(CallDot) :
                   ships_list = [prev.ships_list EXCEPT ![k].health = @ - 1]
             /\ ship_length_list = prev.ship_length_list

\* A shot has hit, without sinking it, the second of two ships.
C6_Witness ==
    /\ call.op = "shot"
    /\ result = Return("True")
    /\ Len(prev.ships_list) = 2
    /\ Owners(CallDot) = {2}
    /\ prev.ships_list[2].health > 1

\* C7: a shot that takes a ship's health to 0 returns True, makes every Dot
\* round that ship "missed", removes that ship from the fleet, and leaves
\* every other ship in the fleet, with its health and the states of its Dots.
C7_SinkEffect ==
    (/\ call.op = "shot" /\ DotOk(call.column, call.row)
     /\ prev.board[call.row][call.column] = "undamaged"
     /\ \E k \in Owners(CallDot) : prev.ships_list[k].health = 1)
    => /\ result = Return("True")
       /\ Cardinality(Owners(CallDot)) = 1
       /\ \A k \in Owners(CallDot) :
             /\ ships_list = Without(prev.ships_list, k)
             /\ \A p \in Dots :
                   board[p[2]][p[1]] =
                      IF p \in Buffer(prev.ships_list[k]) THEN "missed"
                      ELSE IF p = CallDot THEN "damaged"
                      ELSE prev.board[p[2]][p[1]]
             /\ \A j \in 1..Len(prev.ships_list) : j # k =>
                   \A p \in Occupied(prev.ships_list[j]) :
                      board[p[2]][p[1]] = prev.board[p[2]][p[1]]
       /\ ship_length_list = prev.ship_length_list

\* A ship of two parts has been sunk while at least two ships came after it
\* in the fleet: the scan went on past the removal with column and row
\* rebound, and the fleet keeps every other ship.
C7_Witness ==
    /\ call.op = "shot"
    /\ result = Return("True")
    /\ \E k \in Owners(CallDot) :
          /\ prev.ships_list[k].health = 1
          /\ prev.ships_list[k].length = 2
          /\ Len(prev.ships_list) >= k + 2
    /\ Len(ships_list) = Len(prev.ships_list) - 1

\* C8: a shot at a Dot that is "damaged" or "missed" raises
\* IncorrectParametersException and leaves every Dot, every ship and the
\* fleet as they were.
C8_RepeatShotRejected ==
    (/\ call.op = "shot" /\ DotOk(call.column, call.row)
     /\ prev.board[call.row][call.column] \in {"damaged", "missed"})
    => (Raised("IncorrectParametersException") /\ Unchanged)

\* The third call of the run was refused at a "missed" Dot and a ship has
\* sunk: the Dot was marked by the sinking, not by a shot at it.
C8_Witness ==
    /\ call.op = "shot"
    /\ calls = 3
    /\ Raised("IncorrectParametersException")
    /\ DotOk(call.column, call.row)
    /\ board[call.row][call.column] = "missed"
    /\ sunk[1] = 1

\* C9: a Dot that is "damaged" or "missed" is not "hidden" or "undamaged"
\* after the next call.
C9_NoRegression ==
    \A p \in Dots :
        prev.board[p[2]][p[1]] \in {"damaged", "missed"}
        => board[p[2]][p[1]] \in {"damaged", "missed"}

\* C10: a Dot that is "damaged" is "damaged" after the next call, and a shot
\* that sinks a ship finds every Dot round it "hidden" or "missed".
C10_DamagedStays ==
    /\ \A p \in Dots :
          prev.board[p[2]][p[1]] = "damaged" => board[p[2]][p[1]] = "damaged"
    /\ (/\ call.op = "shot" /\ DotOk(call.column, call.row)
        /\ prev.board[call.row][call.column] = "undamaged")
       => \A k \in Owners(CallDot) :
             prev.ships_list[k].health = 1
             => \A p \in Buffer(prev.ships_list[k]) :
                   prev.board[p[2]][p[1]] \in {"hidden", "missed"}

----------------------------------------------------------------------------
\* The scenario of the ship of length 3 at (3,2)

ExampleParts == <<<<3, 2>>, <<4, 2>>, <<5, 2>>>>

\* The 12 Dots of columns 2..6 and rows 1..3 that are no part of the ship
ExampleRound ==
    {p \in (2..6) \X (1..3) : p \notin {<<3, 2>>, <<4, 2>>, <<5, 2>>}}

\* The board with the ship on it and its first k parts hit, no other Dot
\* touched
ExampleBoard(k) ==
    [r \in 1..BoardSize |-> [c \in 1..BoardSize |->
        IF \E i \in 1..3 : ExampleParts[i] = <<c, r>> /\ i <= k THEN "damaged"
        ELSE IF \E i \in 1..3 : ExampleParts[i] = <<c, r>> THEN "undamaged"
        ELSE "hidden"]]

\* The board once the ship has sunk
ExampleSunk ==
    [r \in 1..BoardSize |-> [c \in 1..BoardSize |->
        IF \E i \in 1..3 : ExampleParts[i] = <<c, r>> THEN "damaged"
        ELSE IF <<c, r>> \in ExampleRound THEN "missed"
        ELSE "hidden"]]

ExampleFleet(k) ==
    <<[direction |-> "horizontal", start_point |-> <<3, 2>>, length |-> 3,
       health |-> 3 - k]>>

\* C12: add_ship of the ship of length 3, horizontal, at (3,2) on an empty
\* board makes exactly (3,2), (4,2), (5,2) "undamaged"; the shots at (3,2),
\* (4,2), (5,2), in that order, each return True and leave the ship with
\* health 2, 1, 0; after the third the ship is out of the fleet, the 12 Dots
\* of columns 2..6 and rows 1..3 round it are "missed", its three Dots are
\* "damaged" and every other Dot is "hidden".
C12_Scenario ==
    /\ (/\ call = ShipCall("add_ship", 3, "horizontal", <<3, 2>>)
        /\ prev.board = create_board /\ prev.ships_list = <<>>
        /\ prev.ship_length_list = FleetLengths)
       => /\ result = Return("None")
          /\ board = ExampleBoard(0)
          /\ ships_list = ExampleFleet(0)
    /\ \A k \in 0..1 :
          (/\ call = ShotCall(ExampleParts[k + 1][1], ExampleParts[k + 1][2])
           /\ prev.board = ExampleBoard(k) /\ prev.ships_list = ExampleFleet(k))
          => /\ result = Return("True")
             /\ board = ExampleBoard(k + 1)
             /\ ships_list = ExampleFleet(k + 1)
    /\ (/\ call = ShotCall(5, 2)
        /\ prev.board = ExampleBoard(2) /\ prev.ships_list = ExampleFleet(2))
       => /\ result = Return("True")
          /\ ships_list = <<>>
          /\ sunk[3] = 1
          /\ board = ExampleSunk
          /\ Cardinality(ExampleRound) = 12

\* The fourth call of the run was the shot at (5,2), on the board as the
\* placement and the shots at (3,2) and (4,2) left it.
C12_Witness ==
    /\ calls = 4
    /\ call = ShotCall(5, 2)
    /\ prev.board = ExampleBoard(2)
    /\ prev.ships_list = ExampleFleet(2)
    /\ board = ExampleSunk

\* A ship of every length with every health from 0 to its length
ShipsOfAnyHealth ==
    {[NewShip(n, "horizontal", <<1, 1>>) EXCEPT !.health = h] :
        n \in 1..3, h \in 0..3}

\* C13: every ship of the fleet has health from 1 to its length; no call of
\* add_ship or shot raises GameplayException (reduce_health is never called
\* at health 0); reduce_health takes exactly 1 from a positive health and
\* raises, leaving the ship as it was, at health 0.
C13_HealthPositive ==
    /\ \A k \in 1..Len(ships_list) :
          /\ 1 <= ships_list[k].health
          /\ ships_list[k].health <= ships_list[k].length
    /\ ~Raised("GameplayException")
    /\ \A s \in ShipsOfAnyHealth :
          s.health <= s.length =>
             /\ s.health > 0 =>
                   /\ ~reduce_health(s).raised
                   /\ reduce_health(s).ship = [s EXCEPT !.health = s.health - 1]
             /\ s.health = 0 =>
                   /\ reduce_health(s).raised
                   /\ reduce_health(s).ship = s

\* A shot was refused at a "damaged" Dot that no ship of the fleet has a part
\* at: the Dot of a ship that has sunk.
C13_Witness ==
    /\ call.op = "shot"
    /\ DotOk(call.column, call.row)
    /\ prev.board[call.row][call.column] = "damaged"
    /\ Owners(CallDot) = {}
    /\ sunk[1] + sunk[2] + sunk[3] >= 1
    /\ Raised("IncorrectParametersException")

\* C14: Board.contour of a constructed ship is exactly the Dots of the board
\* near (diagonals included) a part of the ship that are no part of it: no
\* part of the ship, nothing outside the board, and the same whatever the
\* ship's health.
C14_ContourExact ==
    (call.op = "contour" /\ a_ship # NoShip)
    => /\ ret = Buffer(a_ship)
       /\ ret \cap Occupied(a_ship) = {}
       /\ \A p \in ret : 1 <= p[1] /\ p[1] <= 6 /\ 1 <= p[2] /\ p[2] <= 6
       /\ ret = Buffer(NewShip(a_ship.length, a_ship.direction, a_ship.start_point))

\* contour was called for the ship of two parts in the corner (1,1) after it
\* lost health: 4 Dots of the board are round it.
C14_Witness ==
    /\ call.op = "contour"
    /\ a_ship.length = 2 /\ a_ship.direction = "horizontal"
    /\ a_ship.start_point = <<1, 1>>
    /\ a_ship.health < a_ship.length
    /\ Cardinality(ret) = 4

\* C15: Ship(length, direction, Dot(c, r)) with length in 1..3 and one of the
\* two directions succeeds exactly when c + length - 1 <= 6 (horizontal) or
\* r + length - 1 <= 6 (vertical), and raises BoardOutException otherwise;
\* get_dots of a constructed ship returns exactly length coordinates of the
\* board, from the start point on along the direction.
C15_ShipFits ==
    /\ (/\ call.op = "Ship" /\ call.length \in 1..3
        /\ call.direction \in {"horizontal", "vertical"}
        /\ call.column \in 1..6 /\ call.row \in 1..6)
       => LET fits == IF call.direction = "horizontal"
                      THEN call.column + call.length - 1 <= 6
                      ELSE call.row + call.length - 1 <= 6
          IN /\ fits <=> result = Return("None")
             /\ ~fits => Raised("BoardOutException")
             /\ fits => a_ship = [direction |-> call.direction,
                                  start_point |-> <<call.column, call.row>>,
                                  length |-> call.length,
                                  health |-> call.length]
             /\ ~fits => a_ship = NoShip
    /\ call.op = "get_dots"
       => /\ Len(ret) = a_ship.length
          /\ \A k \in 1..Len(ret) :
                /\ ret[k] = IF a_ship.direction = "horizontal"
                            THEN <<a_ship.start_point[1] + k - 1, a_ship.start_point[2]>>
                            ELSE <<a_ship.start_point[1], a_ship.start_point[2] + k - 1>>
                /\ ret[k][1] \in 1..6 /\ ret[k][2] \in 1..6

\* get_dots was called for the ship of length 3 that ends on the last row.
C15_Witness ==
    /\ call.op = "get_dots"
    /\ a_ship.length = 3 /\ a_ship.direction = "vertical"
    /\ a_ship.start_point = <<2, 4>>
    /\ ret = <<<<2, 4>>, <<2, 5>>, <<2, 6>>>>

\* C16: a shot with column or row outside 1..6 raises BoardOutException and
\* leaves every Dot, every ship's health and the fleet as they were.
C16_ShotOutside ==
    (/\ call.op = "shot"
     /\ (call.column < 1 \/ call.column > 6 \/ call.row < 1 \/ call.row > 6))
    => (Raised("BoardOutException") /\ Unchanged)

\* A shot outside the board was refused on a board with a ship that has been
\* hit and a Dot that has been missed.
C16_Witness ==
    /\ call.op = "shot"
    /\ call.row = BoardSize + 1
    /\ Raised("BoardOutException")
    /\ \E k \in 1..Len(ships_list) : ships_list[k].health < ships_list[k].length
    /\ \E p \in Dots : board[p[2]][p[1]] = "missed"


----------------------------------------------------------------------------
\* The fleet of a Board that random_board has finished: no length remains
\* and the ships are seven, of the lengths of FleetLengths
Complete(self) ==
    /\ self.ship_length_list = <<>>
    /\ Len(self.ships_list) = Len(FleetLengths)
    /\ \A n \in 1..3 :
          Cardinality({k \in 1..Len(self.ships_list) : self.ships_list[k].length = n})
          = Cardinality({k \in 1..Len(FleetLengths) : FleetLengths[k] = n})

\* The Game's board of a player: self.board_human or self.board_ai
BoardOf(player) == IF player = "user" THEN board_human ELSE board_ai

\* C18: random_board(player)() makes at most 900 placement attempts on a
\* board: whenever it is about to try a placement its counter is at most
\* 900 and the board it tries on is the player's current board, the fresh
\* one after a replacement; and when it has returned normally the player's
\* current board has no remaining length and a fleet of the seven ships of
\* lengths 3,2,2,1,1,1,1.
C18_RandomBoard ==
    /\ pc = "random_board" =>
          /\ frames[Len(frames)].count <= MaxCount
          /\ frames[Len(frames)].board = BoardOf(frames[Len(frames)].player)
    /\ pc = "set_ships" => Complete(boards[board_ai])
    /\ pc = "loop" => Complete(boards[board_human])

\* C19: player_human.enemy_board is the Board that is Game.board_ai and
\* player_ai.enemy_board is the Board that is Game.board_human, at every
\* point, also after random_board or a RecursionError handler has put a new
\* Board in place.
C19_EnemyBoards ==
    /\ player_human.enemy_board = board_ai
    /\ player_ai.enemy_board = board_human


----------------------------------------------------------------------------
\* The Dot a move aimed at was in this state when the move was made
Aimed(state) == call.op = "shot" /\ prev.board[call.row][call.column] = state

\* C11: Player.move returns True exactly when its shot was a hit (the Dot
\* held an undamaged part) and False exactly when it was a miss (the Dot was
\* hidden); an entry refused as outside the board or as shot before is
\* neither: move has not returned, the board aimed at is as it was, and the
\* same player is asked again.  After True the same player moves again
\* unless the loop has returned; after False the turn is no longer that
\* player's.
C11_MoveResult ==
    mover # "" =>
        /\ move_ret = "True" <=> result = Return("True")
        /\ move_ret = "True" <=> Aimed("undamaged")
        /\ move_ret = "False" <=> result = Return("False")
        /\ move_ret = "False" <=> Aimed("hidden")
        /\ move_ret = "pending" <=> result.kind = "raise"
        /\ result.kind = "raise" =>
              /\ result.val \in {"BoardOutException", "IncorrectParametersException"}
              /\ boards[target] = prev
              /\ pc \in MoveLines(mover)
        /\ move_ret = "True" => pc \in MoveLines(mover) \cup {"returned", "done"}
        /\ move_ret = "False" => pc \notin MoveLines(mover)

\* The user, having hit, asked for a Dot that was shot before, and is asked
\* again.
C11_Witness ==
    /\ mover = "user"
    /\ pc = "l483"
    /\ call.op = "shot"
    /\ Raised("IncorrectParametersException")
    /\ move_ret = "pending"
    /\ boards[target].ships_list # <<>>

\* The lines of Game.loop: control is in the loop
InLoop == pc \in {"loop", "l481", "l483", "l488", "l490"}

\* C17: while both fleets are non-empty Game.loop has not returned; when it
\* has returned exactly one of the two fleets is empty, and Game.start
\* announces "You won!" when the fleet of board_ai is the empty one and
\* "Computer won!" when the fleet of board_human is.
C17_LoopEnds ==
    /\ pc # "raised"
    /\ Alive(boards) => InLoop
    /\ ~InLoop =>
          (boards[board_ai].ships_list = <<>>) # (boards[board_human].ships_list = <<>>)
    /\ pc = "done" =>
          /\ announced = "You won!" <=> boards[board_ai].ships_list = <<>>
          /\ announced = "Computer won!" <=> boards[board_human].ships_list = <<>>

\* The computer has sunk the user's last ship and the result is announced.
C17_Witness ==
    /\ pc = "done"
    /\ announced = "Computer won!"
    /\ boards[board_human].ships_list = <<>>
    /\ boards[board_ai].ships_list # <<>>

\* C20: Player.move is never called while the fleet of the board it aims
\* at is empty: control is at no line that calls a player's move with that
\* player's enemy_board without ships, and no move was made on such a board.
C20_NoMoveOnEmptyFleet ==
    /\ \A p \in {"user", "computer"} :
          pc \in MoveLines(p) => boards[PlayerOf(p).enemy_board].ships_list # <<>>
    /\ mover # "" => prev.ships_list # <<>>


----------------------------------------------------------------------------
\* The parts of a ship whose Dot of the board b is "undamaged"
UndamagedParts(b, ship) == {p \in Occupied(ship) : b[p[2]][p[1]] = "undamaged"}

\* The Dots of the board b in one of the given states
DotsIn(b, states) == {p \in Dots : b[p[2]][p[1]] \in states}

\* C21: the health of every ship of the active fleet is the number of its
\* parts whose Dot is "undamaged"; every "undamaged" Dot is a part of
\* exactly one ship of the active fleet; so the active fleet is non-empty
\* exactly when some Dot of the board is "undamaged".
C21_HealthIsUndamaged ==
    /\ \A k \in 1..Len(ships_list) :
          ships_list[k].health = Cardinality(UndamagedParts(board, ships_list[k]))
    /\ \A p \in DotsIn(board, {"undamaged"}) :
          Cardinality({k \in 1..Len(ships_list) : p \in Occupied(ships_list[k])}) = 1
    /\ ships_list # <<>> <=> DotsIn(board, {"undamaged"}) # {}

\* One ship has been sunk, and a shot has just hit a ship that is still in
\* the fleet, with a part damaged and a part undamaged.
C21_Witness ==
    /\ sunk[1] + sunk[2] + sunk[3] >= 1
    /\ call.op = "shot"
    /\ result = Return("True")
    /\ \E k \in 1..Len(ships_list) :
          /\ CallDot \in Occupied(ships_list[k])
          /\ ships_list[k].health < ships_list[k].length
          /\ ships_list[k].health > 0


----------------------------------------------------------------------------
\* The number of Dots of the board b that no shot has resolved
Unresolved(b) == Cardinality(DotsIn(b, {"hidden", "undamaged"}))

\* C22: on a board on which no ship is placed any more, every shot that
\* returns (hit or miss) leaves fewer Dots "hidden" or "undamaged" than it
\* found and every shot that raises leaves as many; the shots that returned
\* and the Dots still "hidden" or "undamaged" are together at most 36, so at
\* most 36 shots return on one board; and when no Dot is "hidden" or
\* "undamaged" the active fleet is empty.
C22_ShotsResolve ==
    /\ (call.op = "shot" /\ result.kind = "return") =>
          Unresolved(board) < Unresolved(prev.board)
    /\ (call.op = "shot" /\ result.kind = "raise") =>
          Unresolved(board) = Unresolved(prev.board)
    /\ shots + Unresolved(board) <= BoardSize * BoardSize
    /\ shots <= BoardSize * BoardSize
    /\ Unresolved(board) = 0 => ships_list = <<>>

\* Every Dot is resolved, eleven hits among the shots, and a further shot
\* has been refused.
C22_Witness ==
    /\ Unresolved(board) = 0
    /\ ships_list = <<>>
    /\ shots >= 11
    /\ call.op = "shot"
    /\ Raised("IncorrectParametersException")

====
